---- MODULE Spec2Model ----
(***************************************************************************)
(* CountFrequencyEncoder (feature_engine/encoding/count_frequency.py).     *)
(*                                                                         *)
(* The encoder learns, per selected variable, a mapping from category to   *)
(* count or relative frequency (fit), replaces categories by the learned   *)
(* numbers (transform) and maps the numbers back (inverse_transform).      *)
(*                                                                         *)
(* Numbers are kept exact: a statistic is the pair <<num, den>> standing   *)
(* for num/den.  A count n is <<n, 1>>; the frequency produced by          *)
(* value_counts(normalize=True) is <<count, total>>, unreduced.  Two       *)
(* statistics are equal as numbers when they cross-multiply equal.         *)
(***************************************************************************)
EXTENDS Integers, Sequences, FiniteSets, TLC

(* ------------------------------ bounds --------------------------------- *)

\* Largest number of rows of a training dataset.
MaxRows == 2

\* Largest number of rows of a dataset handed to transform.
MaxTRows == 1

(* --------------------------- data universe ----------------------------- *)

Cats == {"a", "b"}

Columns == <<"x", "y">>

EncodingMethods == {"count", "frequency"}

ErrorPolicies == {"ignore", "raise", "encode"}

\* A cell of a dataframe: a category, a number num/den, or NaN.
CatCell(c) == [kind |-> "cat", cat |-> c, num |-> 0, den |-> 0]

NumCell(s) == [kind |-> "num", cat |-> "", num |-> s[1], den |-> s[2]]

NaN == [kind |-> "nan", cat |-> "", num |-> 0, den |-> 0]

Zero == <<0, 1>>

StatEq(s, t) == s[1] * t[2] = t[1] * s[2]

IsZero(s) == s[1] = 0

Range(f) == {f[i] : i \in DOMAIN f}

\* No dataset (the value of an attribute that is not set, or of a call that raised).
NoDataset == [names |-> <<>>, dtype |-> <<>>, vals |-> <<>>]

\* The rows of a training column are listed in one order (a, b, missing):
\* value_counts() counts the values of a column whatever their order.
Rank(cell) == IF cell.kind = "nan" THEN 2 ELSE IF cell.cat = "a" THEN 0 ELSE 1

CatCells == {CatCell(c) : c \in Cats}

\* A column left alone by the encoder (dtype numeric) holds this number.
OtherNumber == <<7, 1>>

\* Contents of a training column of n rows, by dtype.  A column to be encoded
\* holds at least one non-missing value.  Categorical columns declare every
\* category of Cats, so a declared category may have no row.
ColumnValues(dt, n) ==
  IF dt = "numeric"
    THEN {[i \in 1..n |-> NumCell(OtherNumber)]}
    ELSE {v \in [1..n -> CatCells \cup {NaN}] :
            /\ \E i \in 1..n : v[i].kind = "cat"
            /\ \A i, j \in 1..n : i < j => Rank(v[i]) <= Rank(v[j])}

DTypes == {"object", "category", "numeric"}

NameLists == {SubSeq(Columns, 1, k) : k \in 1..Len(Columns)}

Dataset(names, dt, vs) == [names |-> names, dtype |-> dt, vals |-> vs]

DatasetsOver(names, n) ==
  LET ns == Range(names)
  IN  UNION {
        {Dataset(names, dt, vs) :
           vs \in {f \in [ns -> UNION {ColumnValues(d, n) : d \in DTypes}] :
                     \A c \in ns : f[c] \in ColumnValues(dt[c], n)}} :
        dt \in [ns -> DTypes]}

HasMissing(X) ==
  \E c \in Range(X.names) : \E i \in DOMAIN X.vals[c] : X.vals[c][i].kind = "nan"

\* Datasets of up to MaxRows rows.
AllDatasets ==
  UNION {DatasetsOver(names, n) : names \in NameLists, n \in 1..MaxRows}

\* Training datasets with something to learn: a column of categories.
FitDatasets ==
  {X \in AllDatasets : \E c \in Range(X.names) : X.dtype[c] # "numeric"}

\* Training datasets without missing values, with or without a column of
\* categories.
CompleteFitDatasets == {X \in AllDatasets : ~HasMissing(X)}

\* Datasets handed to transform: every cell a category, rows in any order.
TransformDatasets ==
  UNION {
    {Dataset(names, [c \in Range(names) |-> "object"], vs) :
       vs \in [Range(names) -> [1..n -> CatCells]]} :
    names \in NameLists, n \in 1..MaxTRows}

(* ------------------------------- state --------------------------------- *)

VARIABLES
  encoding_method,    \* configuration, set by __init__
  errors,             \* configuration, set by __init__
  attrs,              \* names of the fitted attributes that exist on self
  variables_,
  feature_names_in_,
  n_features_in_,
  encoder_dict_,
  last,               \* the last call: operation, argument, outcome
  fitted_ok,          \* history: some fit has returned normally
  th                  \* the transform / inverse_transform call of each thread

fitted == <<attrs, variables_, feature_names_in_, n_features_in_, encoder_dict_>>

vars == <<encoding_method, errors, attrs, variables_, feature_names_in_,
          n_features_in_, encoder_dict_, last, fitted_ok, th>>

\* A call: the operation, its argument, what it returned or raised, and history
\* (orig: the dataset whose encoding an inverse_transform was given; dropped:
\* the variables a fit call found fitted and did not fit again).
NoCall == [op |-> "init", X |-> NoDataset, out |-> NoDataset, err |-> "none",
           orig |-> NoDataset, dropped |-> {}]

Threads == {"t1", "t2"}

\* A thread's call: where it is (idle, run, done), the operation and its
\* argument, the dataset being rewritten, the variables still to do, whether a
\* lookup missed, and the outcome.
Idle == [pc |-> "idle", op |-> "none", X |-> NoDataset, work |-> NoDataset,
         todo |-> <<>>, missed |-> FALSE, err |-> "none", out |-> NoDataset]

Init ==
  /\ encoding_method \in EncodingMethods
  /\ errors \in ErrorPolicies
  /\ attrs = {}
  /\ variables_ = <<>>
  /\ feature_names_in_ = <<>>
  /\ n_features_in_ = 0
  /\ encoder_dict_ = <<>>
  /\ last = NoCall
  /\ fitted_ok = FALSE
  /\ th = [t \in Threads |-> Idle]

(* -------------------------------- fit ---------------------------------- *)

\* _fit: the variable selector.  With variables=None and ignore_format=False
\* the columns of dtype object or category are selected, in column order.
find_categorical_variables(X) ==
  SelectSeq(X.names, LAMBDA c : X.dtype[c] \in {"object", "category"})

\* X[var].value_counts(): one entry per category, missing values dropped.  A
\* categorical column reports every declared category, also with no row.
Keys(X, var) ==
  IF X.dtype[var] = "category"
    THEN Cats
    ELSE {X.vals[var][i].cat : i \in {j \in DOMAIN X.vals[var] : X.vals[var][j].kind = "cat"}}

Count(X, var, c) ==
  Cardinality({i \in DOMAIN X.vals[var] : X.vals[var][i] = CatCell(c)})

NonMissing(X, var) ==
  Cardinality({i \in DOMAIN X.vals[var] : X.vals[var][i].kind = "cat"})

value_counts(X, var) ==
  [c \in Keys(X, var) |-> <<Count(X, var, c), 1>>]

\* X[var].value_counts(normalize=True): counts divided by their sum.
value_counts_normalize(X, var) ==
  [c \in Keys(X, var) |-> <<Count(X, var, c), NonMissing(X, var)>>]

\* dct_init: a defaultdict with default 0 under errors == "encode", else a dict.
\* The default of a mapping is the set of values a missed lookup may yield.
\* Faulty variant: always a plain dict.
dct_init_plain(policy) ==
  [entries |-> <<>>, default |-> {}]

dct_init(policy) ==
  [entries |-> <<>>, default |-> IF policy = "encode" THEN {Zero} ELSE {}]

\* Series.to_dict(into): a new mapping of the type of `into` (for a defaultdict,
\* with its default factory) holding the entries of the series.
to_dict(series, into) ==
  [entries |-> series, default |-> into.default]

\* One pass of the loop body, lines 166-172: the map of one variable.
\* Faulty variants: one branch taken whatever the encoding method.
learn_one_count_only(X, var, method, into) ==
  to_dict(value_counts(X, var), into)

learn_one_frequency_only(X, var, method, into) ==
  to_dict(value_counts_normalize(X, var), into)

learn_one(X, var, method, into) ==
  IF method = "count"
    THEN to_dict(value_counts(X, var), into)
    ELSE to_dict(value_counts_normalize(X, var), into)

\* Faulty variant: the dictionary of the previous fit is kept.
keep_encoder_dict(old) == old

\* self.encoder_dict_ = {}, line 161: whatever the attribute held is dropped.
reset_encoder_dict(old) == <<>>

\* self.encoder_dict_[var] = m
SetItem(d, var, m) ==
  [k \in DOMAIN d \cup {var} |-> IF k = var THEN m ELSE d[k]]

\* Faulty variant: the loop stops after the first variable.
learn_maps_first_only(d, vs, X, method, into) ==
  IF vs = <<>>
    THEN d
    ELSE SetItem(d, Head(vs), learn_one(X, Head(vs), method, into))

\* The loop of lines 165-172 over self.variables_.
RECURSIVE learn_maps(_, _, _, _, _)
learn_maps(d, vs, X, method, into) ==
  IF vs = <<>>
    THEN d
    ELSE learn_maps(SetItem(d, Head(vs), learn_one(X, Head(vs), method, into)),
                    Tail(vs), X, method, into)

\* _check_encoding_dictionary: under errors == "encode" a learned statistic
\* equal to 0 collides with the value of unseen categories.
check_encoding_dictionary(d, policy) ==
  /\ policy = "encode"
  /\ \E v \in DOMAIN d : \E c \in DOMAIN d[v].entries : IsZero(d[v].entries[c])

AllAttrs == {"variables_", "feature_names_in_", "n_features_in_", "encoder_dict_"}

Call(op, X, out, err, orig) ==
  [op |-> op, X |-> X, out |-> out, err |-> err, orig |-> orig, dropped |-> {}]

fit(X) ==
  LET sel == find_categorical_variables(X)
      d   == learn_maps(reset_encoder_dict(encoder_dict_), sel, X,
                        encoding_method, dct_init(errors))
      bad == check_encoding_dictionary(d, errors)
  IN  IF sel = <<>>
        THEN \* _fit raises before anything is assigned
             /\ last' = Call("fit", X, NoDataset, "SelectorError", NoDataset)
             /\ UNCHANGED <<fitted, fitted_ok>>
        ELSE /\ variables_' = sel                            \* line 158
             /\ feature_names_in_' = X.names                 \* line 159
             /\ n_features_in_' = Len(X.names)
             /\ encoder_dict_' = d                           \* lines 161-172
             /\ attrs' = AllAttrs
             /\ last' = [Call("fit", X, NoDataset,           \* line 174
                              IF bad THEN "ConsistencyError" ELSE "none", NoDataset)
                           EXCEPT !.dropped = Range(variables_) \ Range(sel)]
             /\ fitted_ok' = (fitted_ok \/ ~bad)

Fit == \E X \in FitDatasets : fit(X) /\ UNCHANGED <<encoding_method, errors, th>>

FitComplete ==
  \E X \in CompleteFitDatasets : fit(X) /\ UNCHANGED <<encoding_method, errors, th>>

(* ----------------------------- transform ------------------------------- *)

\* Lookup of a category in a learned mapping: the set of results, empty on a
\* miss.  The entries are checked first, then the default.
Lookup(m, c) ==
  IF c \in DOMAIN m.entries THEN {m.entries[c]} ELSE m.default

LookupCell(m, cell) ==
  IF cell.kind = "cat" THEN Lookup(m, cell.cat) ELSE m.default

\* The encoded cell: the learned statistic, the default, or NaN on a miss.
EncodeCell(m, cell) ==
  IF LookupCell(m, cell) = {}
    THEN NaN
    ELSE NumCell(CHOOSE s \in LookupCell(m, cell) : TRUE)

\* The variables of X holding a value the learned mapping misses.
UnseenVariables(d, vs, X) ==
  {v \in Range(vs) : \E i \in DOMAIN X.vals[v] : LookupCell(d[v], X.vals[v][i]) = {}}

EncodeColumns(d, vs, X) ==
  [names |-> X.names,
   dtype |-> [c \in Range(X.names) |->
                IF c \in Range(vs) THEN "numeric" ELSE X.dtype[c]],
   vals  |-> [c \in Range(X.names) |->
                IF c \in Range(vs)
                  THEN [i \in DOMAIN X.vals[c] |-> EncodeCell(d[c], X.vals[c][i])]
                  ELSE X.vals[c]]]

\* Faulty variant: a lookup answered by the default stores the missed key.
after_lookups_insert(d, vs, X) ==
  [v \in DOMAIN d |->
     IF v \in Range(vs) /\ d[v].default # {}
       THEN [d[v] EXCEPT !.entries =
               [c \in DOMAIN d[v].entries \cup
                      {X.vals[v][i].cat : i \in {j \in DOMAIN X.vals[v] : X.vals[v][j].kind = "cat"}} |->
                  IF c \in DOMAIN d[v].entries THEN d[v].entries[c] ELSE Zero]]
       ELSE d[v]]

\* What answering the lookups of a transform leaves in the learned mappings:
\* lookups read the entries and the default, they store nothing.
after_lookups(d, vs, X) == d

\* Faulty variant: unseen categories never fail the call.
transform_result_never_raises(as, names_in, d, vs, policy, X) ==
  IF "encoder_dict_" \notin as
    THEN <<"StateError", NoDataset>>
    ELSE IF X.names # names_in
           THEN <<"SchemaError", NoDataset>>
           ELSE <<"none", EncodeColumns(d, vs, X)>>

\* The outcome of transform(X) on the fitted state: <<error, output>>.
transform_result(as, names_in, d, vs, policy, X) ==
  IF "encoder_dict_" \notin as
    THEN <<"StateError", NoDataset>>
    ELSE IF X.names # names_in
           THEN <<"SchemaError", NoDataset>>
           ELSE IF policy = "raise" /\ UnseenVariables(d, vs, X) # {}
                  THEN <<"UnseenCategoryError", NoDataset>>
                  ELSE <<"none", EncodeColumns(d, vs, X)>>

transform(X) ==
  LET r == transform_result(attrs, feature_names_in_, encoder_dict_, variables_, errors, X)
  IN  /\ last' = Call("transform", X, r[2], r[1], NoDataset)
      /\ encoder_dict_' = IF r[1] \in {"StateError", "SchemaError"}
                            THEN encoder_dict_
                            ELSE after_lookups(encoder_dict_, variables_, X)
      /\ UNCHANGED <<attrs, variables_, feature_names_in_, n_features_in_, fitted_ok>>

Transform ==
  \E X \in TransformDatasets : transform(X) /\ UNCHANGED <<encoding_method, errors, th>>

(* ------------------------- inverse_transform --------------------------- *)

\* The reverse mappings that {statistic: category} can be for a forward mapping:
\* categories sharing a statistic are all sent back to one of them.
ReverseMaps(m) ==
  {r \in [DOMAIN m.entries -> DOMAIN m.entries] :
     \A c \in DOMAIN r :
       /\ StatEq(m.entries[r[c]], m.entries[c])
       /\ \A c2 \in DOMAIN r : StatEq(m.entries[c], m.entries[c2]) => r[c] = r[c2]}

CellStat(cell) == <<cell.num, cell.den>>

HasStat(m, cell) ==
  /\ cell.kind = "num"
  /\ \E c \in DOMAIN m.entries : StatEq(m.entries[c], CellStat(cell))

\* Faulty variant: the statistic is not looked up.
DecodeCell_first_key(m, r, cell) ==
  IF HasStat(m, cell)
    THEN CatCell(CHOOSE c \in DOMAIN m.entries : TRUE)
    ELSE cell

\* A cell whose number is no learned statistic passes through unchanged.
DecodeCell(m, r, cell) ==
  IF HasStat(m, cell)
    THEN CatCell(r[CHOOSE c \in DOMAIN m.entries : StatEq(m.entries[c], CellStat(cell))])
    ELSE cell

DecodeColumns(d, vs, rev, X) ==
  [names |-> X.names,
   dtype |-> [c \in Range(X.names) |->
                IF c \in Range(vs) THEN "object" ELSE X.dtype[c]],
   vals  |-> [c \in Range(X.names) |->
                IF c \in Range(vs)
                  THEN [i \in DOMAIN X.vals[c] |-> DecodeCell(d[c], rev[c], X.vals[c][i])]
                  ELSE X.vals[c]]]

inverse_result(as, names_in, d, vs, rev, X) ==
  IF "encoder_dict_" \notin as
    THEN <<"StateError", NoDataset>>
    ELSE IF X.names # names_in
           THEN <<"SchemaError", NoDataset>>
           ELSE <<"none", DecodeColumns(d, vs, rev, X)>>

\* Numeric datasets of one row, to call inverse_transform on.
NumericDatasets ==
  {[names |-> names,
    dtype |-> [c \in Range(names) |-> "numeric"],
    vals  |-> [c \in Range(names) |-> <<NumCell(<<1, 1>>)>>]] : names \in NameLists}

\* inverse_transform is called on the output of the last transform, or on a
\* numeric dataset.
InverseInputs ==
  NumericDatasets \cup
    (IF last.op = "transform" /\ last.err = "none" THEN {last.out} ELSE {})

inverse_transform(X) ==
  \E rev \in IF "encoder_dict_" \in attrs
               THEN {f \in [Range(variables_) -> UNION {ReverseMaps(encoder_dict_[v]) : v \in Range(variables_)}] :
                       \A v \in Range(variables_) : f[v] \in ReverseMaps(encoder_dict_[v])}
               ELSE {<<>>} :
    LET r == inverse_result(attrs, feature_names_in_, encoder_dict_, variables_, rev, X)
    IN  /\ last' = Call("inverse_transform", X, r[2], r[1],
                        IF last.op = "transform" /\ last.err = "none" /\ X = last.out
                          THEN last.X ELSE NoDataset)
        /\ UNCHANGED <<fitted, fitted_ok>>

InverseTransform ==
  \E X \in InverseInputs : inverse_transform(X) /\ UNCHANGED <<encoding_method, errors, th>>

(* ------------------------- concurrent callers -------------------------- *)

\* Threads share one encoder.  A call checks the fitted state and the schema,
\* then rewrites the dataset one fitted variable at a time, then returns.  fit
\* is exclusive: it runs while no thread has called yet.
ConcFitDatasets ==
  {X \in CompleteFitDatasets : \A c \in Range(X.names) : Len(X.vals[c]) <= MaxTRows}

FitExclusive ==
  /\ \A t \in Threads : th[t].pc = "idle"
  /\ \E X \in ConcFitDatasets : fit(X)
  /\ UNCHANGED <<encoding_method, errors, th>>

Enter(t, op, X) ==
  /\ th[t].pc \in {"idle", "done"}
  /\ th' = [th EXCEPT ![t] =
       IF ~("encoder_dict_" \in attrs)
         THEN [Idle EXCEPT !.pc = "done", !.op = op, !.X = X, !.err = "StateError"]
         ELSE IF X.names # feature_names_in_
                THEN [Idle EXCEPT !.pc = "done", !.op = op, !.X = X, !.err = "SchemaError"]
                ELSE [Idle EXCEPT !.pc = "run", !.op = op, !.X = X, !.work = X,
                                  !.todo = variables_]]
  /\ UNCHANGED <<encoding_method, errors, fitted, last, fitted_ok>>

EnterTransform(t) == \E X \in TransformDatasets : Enter(t, "transform", X)

\* inverse_transform is called on a numeric dataset or on what a transform returned.
EnterInverse(t) ==
  \E X \in NumericDatasets \cup
           {th[u].out : u \in {w \in Threads : th[w].op = "transform" /\ th[w].pc = "done"
                                                /\ th[w].err = "none"}} :
    Enter(t, "inverse_transform", X)

\* X[feature] = X[feature].map(...) for the next fitted variable.
StepTransform(t) ==
  /\ th[t].pc = "run" /\ th[t].op = "transform" /\ th[t].todo # <<>>
  /\ LET v == Head(th[t].todo)
     IN  /\ th' = [th EXCEPT ![t].work = EncodeColumns(encoder_dict_, <<v>>, th[t].work),
                             ![t].missed = th[t].missed
                                           \/ UnseenVariables(encoder_dict_, <<v>>, th[t].work) # {},
                             ![t].todo = Tail(th[t].todo)]
         /\ encoder_dict_' = after_lookups(encoder_dict_, <<v>>, th[t].work)
  /\ UNCHANGED <<encoding_method, errors, attrs, variables_, feature_names_in_,
                 n_features_in_, last, fitted_ok>>

StepInverse(t) ==
  /\ th[t].pc = "run" /\ th[t].op = "inverse_transform" /\ th[t].todo # <<>>
  /\ LET v == Head(th[t].todo)
     IN  \E r \in ReverseMaps(encoder_dict_[v]) :
           th' = [th EXCEPT ![t].work = DecodeColumns(encoder_dict_, <<v>>, (v :> r), th[t].work),
                            ![t].todo = Tail(th[t].todo)]
  /\ UNCHANGED <<encoding_method, errors, fitted, last, fitted_ok>>

Return(t) ==
  /\ th[t].pc = "run" /\ th[t].todo = <<>>
  /\ th' = [th EXCEPT ![t] =
       IF th[t].op = "transform" /\ errors = "raise" /\ th[t].missed
         THEN [@ EXCEPT !.pc = "done", !.work = NoDataset, !.err = "UnseenCategoryError"]
         ELSE [@ EXCEPT !.pc = "done", !.out = th[t].work, !.work = NoDataset]]
  /\ UNCHANGED <<encoding_method, errors, fitted, last, fitted_ok>>

(* --------------------------- specifications --------------------------- *)

\* Any sequence of fit, transform and inverse_transform calls on one encoder.
Next == FitComplete \/ Transform \/ InverseTransform

Spec == Init /\ [][Next]_vars

\* Any sequence of fit calls on one encoder, missing values included.
NextFit == Fit

SpecFit == Init /\ [][NextFit]_vars

\* Fits, then any interleaving of the transform and inverse_transform calls of
\* the threads.
NextConc ==
  \/ FitExclusive
  \/ \E t \in Threads : EnterTransform(t)
  \/ \E t \in Threads : EnterInverse(t)
  \/ \E t \in Threads : StepTransform(t)
  \/ \E t \in Threads : StepInverse(t)
  \/ \E t \in Threads : Return(t)

SpecConc == Init /\ [][NextConc]_vars

(* ------------------------- properties of fit --------------------------- *)

FitReturned == last.op = "fit" /\ last.err = "none"

RECURSIVE Occurrences(_, _)
Occurrences(seq, cell) ==
  IF seq = <<>>
    THEN 0
    ELSE (IF Head(seq) = cell THEN 1 ELSE 0) + Occurrences(Tail(seq), cell)

RECURSIVE Present(_)
Present(seq) ==
  IF seq = <<>>
    THEN 0
    ELSE (IF Head(seq).kind = "cat" THEN 1 ELSE 0) + Present(Tail(seq))

\* The sum of the statistics f[c], c in S, as a fraction.
RECURSIVE SumStats(_, _)
SumStats(f, S) ==
  IF S = {}
    THEN Zero
    ELSE LET c == CHOOSE k \in S : TRUE
             r == SumStats(f, S \ {c})
         IN  <<f[c][1] * r[2] + r[1] * f[c][2], f[c][2] * r[2]>>

CategoriesIn(X, v) ==
  {c \in Cats : Occurrences(X.vals[v], CatCell(c)) > 0}

\* C1: with COUNT encoding, after a successful fit on D every fitted variable
\* maps each category to the number of rows of D bearing it, every category of
\* D has an entry, and the statistics of a variable add up to the number of its
\* non-missing rows in D.
C1_CountMapping ==
  (encoding_method = "count" /\ FitReturned) =>
    \A v \in Range(variables_) :
      LET m == encoder_dict_[v].entries
      IN  /\ CategoriesIn(last.X, v) \subseteq DOMAIN m
          /\ \A c \in DOMAIN m : m[c] = <<Occurrences(last.X.vals[v], CatCell(c)), 1>>
          /\ StatEq(SumStats(m, DOMAIN m), <<Present(last.X.vals[v]), 1>>)

C1_Witness ==
  /\ encoding_method = "count"
  /\ FitReturned
  /\ Len(variables_) = Len(Columns)
  /\ HasMissing(last.X)
  /\ \E v \in Range(variables_) :
       /\ Cardinality(DOMAIN encoder_dict_[v].entries) > 1
       /\ Present(last.X.vals[v]) > 1

\* C2: with FREQUENCY encoding, after a successful fit on D every fitted
\* variable maps each category to its row count divided by the number of
\* non-missing rows of the variable; each statistic lies in [0, 1] and the
\* statistics of a variable add up to 1.
C2_FrequencyMapping ==
  (encoding_method = "frequency" /\ FitReturned) =>
    \A v \in Range(variables_) :
      LET m == encoder_dict_[v].entries
      IN  /\ CategoriesIn(last.X, v) \subseteq DOMAIN m
          /\ \A c \in DOMAIN m :
               /\ m[c][2] > 0
               /\ StatEq(m[c], <<Occurrences(last.X.vals[v], CatCell(c)),
                                 Present(last.X.vals[v])>>)
               /\ 0 <= m[c][1] /\ m[c][1] <= m[c][2]
          /\ StatEq(SumStats(m, DOMAIN m), <<1, 1>>)

C2_Witness ==
  /\ encoding_method = "frequency"
  /\ FitReturned
  /\ Len(variables_) = Len(Columns)
  /\ HasMissing(last.X)
  /\ \E v \in Range(variables_) : \E c \in DOMAIN encoder_dict_[v].entries :
       /\ 0 < encoder_dict_[v].entries[c][1]
       /\ encoder_dict_[v].entries[c][1] < encoder_dict_[v].entries[c][2]

\* What a fresh encoder of the same configuration learns from X alone.
FreshVariables(X) == find_categorical_variables(X)

FreshDict(X) ==
  learn_maps(reset_encoder_dict(<<>>), FreshVariables(X), X, encoding_method,
             dct_init(errors))

\* C8: after a successful fit on an encoder that was fitted before,
\* encoder_dict_ and variables_ are what a fresh encoder of the same
\* configuration learns from the new dataset alone: nothing of the earlier fit
\* remains.
C8_RefitReplaces ==
  FitReturned =>
    /\ variables_ = FreshVariables(last.X)
    /\ DOMAIN encoder_dict_ = Range(variables_)
    /\ encoder_dict_ = FreshDict(last.X)
    /\ feature_names_in_ = last.X.names
    /\ n_features_in_ = Len(last.X.names)

C8_Witness ==
  /\ FitReturned
  /\ last.dropped # {}
  /\ \E v \in Range(variables_) : Cardinality(DOMAIN encoder_dict_[v].entries) > 1

\* A declared category of a selected categorical column of X has no row, so the
\* statistic learned for it is 0.
ZeroLearned(X) ==
  \E v \in Range(X.names) :
    /\ X.dtype[v] = "category"
    /\ \E c \in Cats : Occurrences(X.vals[v], CatCell(c)) = 0

\* C10: fit raises a ConsistencyError exactly when errors == "encode" and a
\* statistic learned for some category of some fitted variable is 0; when it
\* does, the maps of all variables have been built; under "ignore" and "raise"
\* the check never fails a fit.
C10_ConsistencyCheck ==
  (last.op = "fit") =>
    /\ (last.err = "ConsistencyError") <=> (errors = "encode" /\ ZeroLearned(last.X))
    /\ (last.err = "ConsistencyError") => DOMAIN encoder_dict_ = Range(variables_)
    /\ (errors # "encode" /\ find_categorical_variables(last.X) # <<>>) => last.err = "none"

C10_Witness ==
  /\ last.op = "fit"
  /\ last.err = "ConsistencyError"
  /\ Len(variables_) = Len(Columns)
  /\ \A c \in DOMAIN encoder_dict_[variables_[1]].entries :
       ~IsZero(encoder_dict_[variables_[1]].entries[c])

\* C3: a fit that ends with a ConsistencyError publishes no Fitted State:
\* encoder_dict_, variables_, feature_names_in_ and n_features_in_ are after
\* the failed fit what they were before it (absent, or the earlier values).
C3_FailedFitPublishesNothing ==
  [][(last'.op = "fit" /\ last'.err = "ConsistencyError") => fitted' = fitted]_vars

(* ------------------- properties of call sequences ---------------------- *)

Fitted == "encoder_dict_" \in attrs

Encoded(v) == v \in Range(variables_)

\* The cells of the argument of the last call, and of its result, in column v.
InCell(v, i) == last.X.vals[v][i]

OutCell(v, i) == last.out.vals[v][i]

Seen(v, cell) == cell.kind = "cat" /\ cell.cat \in DOMAIN encoder_dict_[v].entries

\* The last call handed a dataset of the fitted schema to a fitted encoder.
Accepted == Fitted /\ last.X.names = feature_names_in_

\* C4: transform and inverse_transform fail with a StateError and return no
\* dataset as long as no fit has completed successfully on the encoder, also
\* after a fit that failed; encoder_dict_ exists only once a fit has succeeded.
C4_StateErrorBeforeSuccessfulFit ==
  /\ (last.op \in {"transform", "inverse_transform"} /\ ~fitted_ok) =>
       (last.err = "StateError" /\ last.out = NoDataset)
  /\ Fitted => fitted_ok

\* Every encoded cell of X holds a category of the learned mapping.
AllSeen(X) ==
  \A v \in Range(variables_) : \A i \in DOMAIN X.vals[v] : Seen(v, X.vals[v][i])

C5_Outcome ==
  (errors = "raise" /\ last.op = "transform" /\ Accepted) =>
    IF AllSeen(last.X)
      THEN /\ last.err = "none"
           /\ last.out.names = last.X.names
           /\ \A v \in Range(last.X.names) : \A i \in DOMAIN last.X.vals[v] :
                OutCell(v, i) = IF Encoded(v)
                                  THEN NumCell(encoder_dict_[v].entries[InCell(v, i).cat])
                                  ELSE InCell(v, i)
      ELSE last.err = "UnseenCategoryError" /\ last.out = NoDataset

C5_FailureKeepsState ==
  (last'.op = "transform" /\ last'.err = "UnseenCategoryError") => fitted' = fitted

C5_RetrySucceeds ==
  (/\ last.op = "transform" /\ last.err = "UnseenCategoryError"
   /\ last'.op = "transform" /\ last'.X.names = feature_names_in_ /\ AllSeen(last'.X)) =>
     (last'.err = "none" /\ last'.out # NoDataset)

\* C5: under errors == "raise", transform of a dataset holding, in an encoded
\* variable, a category the learned mapping lacks fails with
\* UnseenCategoryError and returns nothing; the failed call leaves the fitted
\* attributes as they were, and a transform that follows it on a dataset of
\* seen categories returns the learned statistic in every encoded cell.
C5_RaiseOnUnseen ==
  /\ []C5_Outcome
  /\ [][C5_FailureKeepsState /\ C5_RetrySucceeds]_vars

C5_Witness ==
  /\ errors = "raise"
  /\ last.op = "transform"
  /\ last.err = "UnseenCategoryError"
  /\ Len(variables_) = Len(Columns)
  /\ Seen(variables_[1], InCell(variables_[1], 1))
  /\ ~Seen(variables_[2], InCell(variables_[2], 1))

C6_DefaultOfMappings ==
  Fitted =>
    \A v \in Range(variables_) :
      /\ encoder_dict_[v].default = IF errors = "encode" THEN {Zero} ELSE {}
      /\ \A c \in Cats \ DOMAIN encoder_dict_[v].entries :
           Lookup(encoder_dict_[v], c) = IF errors = "encode" THEN {Zero} ELSE {}

C6_EncodedCells ==
  (errors = "encode" /\ last.op = "transform" /\ Accepted) =>
    /\ last.err = "none"
    /\ \A v \in Range(variables_) : \A i \in DOMAIN last.X.vals[v] :
         OutCell(v, i) = IF Seen(v, InCell(v, i))
                           THEN NumCell(encoder_dict_[v].entries[InCell(v, i).cat])
                           ELSE NumCell(Zero)

Injective(m) ==
  \A c1, c2 \in DOMAIN m : StatEq(m[c1], m[c2]) => c1 = c2

InTraining(v, cell) == Seen(v, cell) /\ ~IsZero(encoder_dict_[v].entries[cell.cat])

\* C7: when the mapping learned for variable v is injective, inverse_transform
\* of the result of transform restores, in column v, every category that was
\* present in the training data of v.
C7_RoundTrip ==
  (last.op = "inverse_transform" /\ last.err = "none" /\ last.orig # NoDataset) =>
    \A v \in Range(variables_) :
      Injective(encoder_dict_[v].entries) =>
        \A i \in DOMAIN last.orig.vals[v] :
          InTraining(v, last.orig.vals[v][i]) => OutCell(v, i) = last.orig.vals[v][i]

C7_Witness ==
  /\ last.op = "inverse_transform"
  /\ last.err = "none"
  /\ last.orig # NoDataset
  /\ Len(variables_) = Len(Columns)
  /\ \E v \in Range(variables_) :
       /\ Injective(encoder_dict_[v].entries)
       /\ Cardinality(DOMAIN encoder_dict_[v].entries) > 1
       /\ InTraining(v, last.orig.vals[v][1])
       /\ InCell(v, 1).kind = "num"
       /\ OutCell(v, 1) = last.orig.vals[v][1]
  /\ \E v \in Range(variables_) : ~Injective(encoder_dict_[v].entries)

(* ------------------- properties of concurrent calls -------------------- *)

\* The reverse mappings of all fitted variables that a call may build.
AllReverseMaps ==
  {f \in [Range(variables_) -> UNION {ReverseMaps(encoder_dict_[v]) : v \in Range(variables_)}] :
     \A v \in Range(variables_) : f[v] \in ReverseMaps(encoder_dict_[v])}

\* What the call of thread t returns when it runs alone on the fitted state.
AloneResults(t) ==
  IF th[t].op = "transform"
    THEN {transform_result(attrs, feature_names_in_, encoder_dict_, variables_,
                           errors, th[t].X)}
    ELSE IF "encoder_dict_" \in attrs
           THEN {inverse_result(attrs, feature_names_in_, encoder_dict_, variables_,
                                rev, th[t].X) : rev \in AllReverseMaps}
           ELSE {<<"StateError", NoDataset>>}

C9_SameAsAlone ==
  \A t \in Threads :
    th[t].pc = "done" => <<th[t].err, th[t].out>> \in AloneResults(t)

C9_RepeatableTransform ==
  \A t, u \in Threads :
    (th[t].pc = "done" /\ th[u].pc = "done" /\ th[t].op = "transform"
       /\ th[u].op = "transform" /\ th[t].X = th[u].X) =>
      (th[t].err = th[u].err /\ th[t].out = th[u].out)

C9_ReadOnly == (th' # th) => fitted' = fitted

====
